---- MODULE Spec2Model ----
(***************************************************************************)
(* Model of gif_frames.py: read_frames (a generator that composites the    *)
(* frames of an animated GIF) and write_frames (an encoder that writes a   *)
(* GIF89a stream with inter-frame deltas).                                 *)
(*                                                                         *)
(* Images are records [size, px]: size = <<width, height>> and px maps     *)
(* <<x, y>> (0-based, as in PIL) to an RGBA pixel <<r, g, b, a>>.          *)
(* The sink is the sequence of handle.write() calls, each a record         *)
(* [kind, bytes]; kind is a label of the model, bytes what is written.     *)
(***************************************************************************)
EXTENDS Integers, Sequences, FiniteSets, TLC

VARIABLES
    frames,      \* write_frames: the input canvases (the iterable `frames`)
    i,           \* write_frames: canvases taken from the iterable so far
    prev_frame,  \* write_frames: local prev_frame (None or an image)
    sink,        \* write_frames: the writes made to `handle`, in order
    epc,         \* write_frames: "loop", "done" (returned), "raised"
    nframes,     \* read_frames: number of frames the source holds
    pos,         \* read_frames: orig.tell()
    orig,        \* read_frames: the source frame the cursor is on
    palette,     \* read_frames: local palette (taken from the first frame)
    heap,        \* read_frames: the image objects, by object id
    rprev,       \* read_frames: object id local prev_frame refers to
    rcur,        \* read_frames: object id local current_frame refers to
    dpc,         \* read_frames: "start", "yielded", "ended", "fault", "idle"
    builtFrom,   \* history: orig.tell() at each yield, in yield order
    lastYield,   \* history: the canvas yielded last, as it was when yielded
    prevYield,   \* history: the canvas yielded before that, when yielded
    shadow,      \* history: the canvas the last yield has if nobody mutates
    mutations    \* consumer: mutations of yielded canvases made so far

encVars == <<frames, i, prev_frame, sink, epc>>
decVars == <<nframes, pos, orig, palette, heap, rprev, rcur, dpc,
             builtFrom, lastYield, prevYield, shadow, mutations>>
vars == <<frames, i, prev_frame, sink, epc, nframes, pos, orig, palette,
          heap, rprev, rcur, dpc, builtFrom, lastYield, prevYield, shadow,
          mutations>>

\* ------------------------------------------------------------- bounds
MaxFrames == 3
MaxMutations == 1

\* ------------------------------------------------------------- images
\* Python's None, for an image and for a bounding box.
NoImage == [size |-> <<0, 0>>, px |-> <<>>]
NoBBox == <<>>

Red == <<255, 0, 0, 255>>
Green == <<0, 255, 0, 255>>
Blue == <<0, 0, 255, 255>>
Black == <<0, 0, 0, 255>>
Clear == <<0, 0, 0, 0>>

CanvasSize == <<2, 2>>
OtherSizes == {<<1, 2>>, <<2, 1>>}

Positions(size) == (0 .. size[1] - 1) \X (0 .. size[2] - 1)

Images(size, colours) ==
    [size : {size}, px : [Positions(size) -> colours]]

Min(a, b) == IF a < b THEN a ELSE b

\* img.copy(): a new image with the same size and pixels.
copy(img) == [size |-> img.size, px |-> [p \in Positions(img.size) |-> img.px[p]]]

\* img.crop(bbox): bbox = <<left, upper, right, lower>>, right/lower exclusive.
crop(img, bbox) ==
    LET size == <<bbox[3] - bbox[1], bbox[4] - bbox[2]>>
    IN [size |-> size,
        px |-> [p \in Positions(size) |-> img.px[<<p[1] + bbox[1], p[2] + bbox[2]>>]]]

\* ImageChops.subtract_modulo(a, b): per channel (a - b) mod 256, over the
\* area the two images share.
subtract_modulo(a, b) ==
    LET size == <<Min(a.size[1], b.size[1]), Min(a.size[2], b.size[2])>>
    IN [size |-> size,
        px |-> [p \in Positions(size) |->
                   [c \in 1 .. 4 |-> (a.px[p][c] - b.px[p][c]) % 256]]]

SetMin(S) == CHOOSE x \in S : \A y \in S : x <= y
SetMax(S) == CHOOSE x \in S : \A y \in S : x >= y

\* img.getbbox(): the bounding box of the non-zero pixels, or None.
getbbox(img) ==
    LET nz == {p \in Positions(img.size) : img.px[p] # Clear}
        xs == {p[1] : p \in nz}
        ys == {p[2] : p \in nz}
    IN IF nz = {} THEN NoBBox
       ELSE <<SetMin(xs), SetMin(ys), SetMax(xs) + 1, SetMax(ys) + 1>>

\* ------------------------------------------------------------- byte blocks
int_to_bin(n) == <<n % 256, n \div 256>>

header_block == <<71, 73, 70>> \o <<56, 57, 97>>

logical_screen_descriptor(img, packed_bit) ==
    int_to_bin(img.size[1]) \o int_to_bin(img.size[2]) \o packed_bit
        \o <<0>> \o <<0>>

application_ext(loops) ==
    <<33>> \o <<255>> \o <<11>>
        \o <<78, 69, 84, 83, 67, 65, 80, 69>> \o <<50, 46, 48>>
        \o <<3>> \o <<1>> \o int_to_bin(loops) \o <<0>>

TrailerByte == 59

\* ------------------------------------------------------------- the codec
\* GifImagePlugin is outside the repository.  It is modelled by what the
\* encoder needs of it: a fixed colour order, a palette of the colours the
\* image uses, an image descriptor that carries offset and size, and a
\* payload that is the row-major sequence of colour indices.
ColourSeq == <<Red, Green, Blue, Black, Clear>>

ColourIndex(c) == CHOOSE k \in 1 .. Len(ColourSeq) : ColourSeq[k] = c

UsedColours(img) == {img.px[p] : p \in Positions(img.size)}

PaletteBytes(img) ==
    LET used == SelectSeq(ColourSeq, LAMBDA c : c \in UsedColours(img))
        Flat[k \in 0 .. Len(used)] ==
            IF k = 0 THEN <<>>
            ELSE Flat[k - 1] \o <<used[k][1], used[k][2], used[k][3]>>
    IN Flat[Len(used)]

\* getheader(img)[0]: [signature + size, packed flags, background, palette]
getheader(img) ==
    << <<71, 73, 70, 56, 55, 97>> \o int_to_bin(img.size[1])
           \o int_to_bin(img.size[2]),
       <<128 + Cardinality(UsedColours(img)) - 1>>,
       <<0, 0>>,
       PaletteBytes(img) >>

PixelBytes(img) ==
    [k \in 1 .. img.size[1] * img.size[2] |->
        ColourIndex(img.px[<<(k - 1) % img.size[1], (k - 1) \div img.size[1]>>])]

\* getdata(img, offset): the blocks of one frame.
getdata(img, offset) ==
    << [kind |-> "desc",
        bytes |-> <<44>> \o int_to_bin(offset[1]) \o int_to_bin(offset[2])
                      \o int_to_bin(img.size[1]) \o int_to_bin(img.size[2])
                      \o <<0>>],
       [kind |-> "pixels", bytes |-> PixelBytes(img)],
       [kind |-> "end", bytes |-> <<0>>] >>

\* ------------------------------------------------------------- write_frames
\* Mutant: the looping extension written before the global colour table.
FirstFrameHeaders_ext_before_table(img) ==
    LET header == getheader(img)
    IN << [kind |-> "sig", bytes |-> header_block],
          [kind |-> "lsd", bytes |-> logical_screen_descriptor(img, header[2])],
          [kind |-> "appext", bytes |-> application_ext(0)],
          [kind |-> "gct", bytes |-> header[4]] >>

\* The four writes made before the first canvas's data blocks.
FirstFrameHeaders(img) ==
    LET header == getheader(img)
    IN << [kind |-> "sig", bytes |-> header_block],
          [kind |-> "lsd", bytes |-> logical_screen_descriptor(img, header[2])],
          [kind |-> "gct", bytes |-> header[4]],
          [kind |-> "appext", bytes |-> application_ext(0)] >>

\* Mutant: the bounding box taken from the alpha channel of the delta alone.
DeltaBBox_alpha_only(img, prev) ==
    LET delta == subtract_modulo(img, prev)
    IN getbbox([size |-> delta.size,
                px |-> [p \in Positions(delta.size) |->
                           <<0, 0, 0, delta.px[p][4]>>]])

\* The delta of a canvas against the retained one.
DeltaBBox(img, prev) == getbbox(subtract_modulo(img, prev))

\* Mutant: offset=bbox[2:], the lower-right corner, for offset=bbox[:2].
DeltaBlocks_lower_right(img, bbox) == getdata(crop(img, bbox), <<bbox[3], bbox[4]>>)

\* The blocks written for a canvas that is not the first.
DeltaBlocks(img, bbox) == getdata(crop(img, bbox), <<bbox[1], bbox[2]>>)

\* Mutant: prev_frame set for the first canvas only.
Retained_first_only(img, prev, bbox) == IF prev = NoImage THEN copy(img) ELSE prev

\* What prev_frame is after a canvas has been handled.
Retained(img, prev, bbox) == copy(img)

\* What a failure of the codec leaves the call in.
CodecError == "raised"

\* for img in frames, prev_frame is None: headers and the full first canvas.
WriteFirst ==
    /\ epc = "loop"
    /\ i < Len(frames)
    /\ prev_frame = NoImage
    /\ LET img == frames[i + 1]
       IN \E outcome \in {"ok", "getheader fails", "getdata fails"} :
            CASE outcome = "getheader fails" ->
                    /\ epc' = CodecError
                    /\ UNCHANGED <<sink, prev_frame, i>>
              [] outcome = "getdata fails" ->
                    /\ sink' = sink \o FirstFrameHeaders(img)
                    /\ epc' = CodecError
                    /\ UNCHANGED <<prev_frame, i>>
              [] OTHER ->
                    /\ sink' = sink \o FirstFrameHeaders(img)
                                    \o getdata(img, <<0, 0>>)
                    /\ prev_frame' = Retained(img, prev_frame, NoBBox)
                    /\ i' = i + 1
                    /\ epc' = epc
    /\ UNCHANGED <<frames, decVars>>

\* for img in frames, prev_frame set: the delta against prev_frame.
WriteNext ==
    /\ epc = "loop"
    /\ i < Len(frames)
    /\ prev_frame # NoImage
    /\ LET img == frames[i + 1]
           bbox == DeltaBBox(img, prev_frame)
       IN IF bbox # NoBBox
          THEN \E outcome \in {"ok", "getdata fails"} :
                 IF outcome = "ok"
                 THEN /\ sink' = sink \o DeltaBlocks(img, bbox)
                      /\ prev_frame' = Retained(img, prev_frame, bbox)
                      /\ i' = i + 1
                      /\ epc' = epc
                 ELSE /\ epc' = CodecError
                      /\ UNCHANGED <<sink, prev_frame, i>>
          ELSE /\ prev_frame' = Retained(img, prev_frame, bbox)
               /\ i' = i + 1
               /\ UNCHANGED <<sink, epc>>
    /\ UNCHANGED <<frames, decVars>>

\* Mutant: the trailer written in a finally clause, so after a failure too.
WriteTrailer_finally ==
    /\ \/ epc = "loop" /\ i = Len(frames)
       \/ epc = "raised" /\ \A k \in 1 .. Len(sink) : sink[k].kind # "trailer"
    /\ sink' = Append(sink, [kind |-> "trailer", bytes |-> <<TrailerByte>>])
    /\ epc' = IF epc = "raised" THEN "raised" ELSE "done"
    /\ UNCHANGED <<frames, i, prev_frame, decVars>>

\* The iterable is exhausted: the trailer, then return.
WriteTrailer ==
    /\ epc = "loop"
    /\ i = Len(frames)
    /\ sink' = Append(sink, [kind |-> "trailer", bytes |-> <<TrailerByte>>])
    /\ epc' = "done"
    /\ UNCHANGED <<frames, i, prev_frame, decVars>>

\* A source frame that is not there, and a palette that is not there.
NoPalette == <<>>
NoFrame == [tile |-> <<>>, pal |-> NoPalette, idx |-> <<>>]

SeqsUpTo(S, n) == UNION {[1 .. k -> S] : k \in 0 .. n}

DecIdle ==
    /\ nframes = 0
    /\ pos = 0
    /\ orig = NoFrame
    /\ palette = NoPalette
    /\ heap = <<NoImage, NoImage>>
    /\ rprev = 0
    /\ rcur = 0
    /\ dpc = "idle"
    /\ builtFrom = <<>>
    /\ lastYield = NoImage
    /\ prevYield = NoImage
    /\ shadow = NoImage
    /\ mutations = 0

\* Mutant: the signature written before the loop, not for the first canvas.
EncStart_signature_first ==
    /\ i = 0
    /\ prev_frame = NoImage
    /\ sink = <<[kind |-> "sig", bytes |-> header_block]>>
    /\ epc = "loop"

\* write_frames is entered: prev_frame = None, nothing written.
EncStart ==
    /\ i = 0
    /\ prev_frame = NoImage
    /\ sink = <<>>
    /\ epc = "loop"

\* write_frames on canvases of one size.
Init ==
    /\ frames \in SeqsUpTo(Images(CanvasSize, {Red, Green}), MaxFrames)
    /\ EncStart
    /\ DecIdle

Next == WriteFirst \/ WriteNext \/ WriteTrailer

Spec == Init /\ [][Next]_vars

\* write_frames on canvases of differing sizes.
InitGeom ==
    /\ frames \in SeqsUpTo(Images(CanvasSize, {Red, Green})
                           \cup UNION {Images(sz, {Red, Green}) : sz \in OtherSizes},
                           MaxFrames)
    /\ EncStart
    /\ DecIdle

SpecGeom == InitGeom /\ [][Next]_vars

\* ------------------------------------------------------------- reading the sink
IsPrefix(s, t) == Len(s) <= Len(t) /\ SubSeq(t, 1, Len(s)) = s

U16(b, k) == b[k] + 256 * b[k + 1]

\* Offset and size an image descriptor declares.
DescOffset(d) == <<U16(d.bytes, 2), U16(d.bytes, 4)>>
DescSize(d) == <<U16(d.bytes, 6), U16(d.bytes, 8)>>
DescBox(d) ==
    <<DescOffset(d)[1], DescOffset(d)[2],
      DescOffset(d)[1] + DescSize(d)[1], DescOffset(d)[2] + DescSize(d)[2]>>

NumGroups(s) == Cardinality({k \in 1 .. Len(s) : s[k].kind = "desc"})

BoxWithin(box, size) ==
    /\ 0 <= box[1] /\ box[1] < box[3] /\ box[3] <= size[1]
    /\ 0 <= box[2] /\ box[2] < box[4] /\ box[4] <= size[2]

\* The three writes starting at position k are the encoding of canvas img
\* cropped to the box the descriptor declares, at the offset it declares.
GroupEncodes(s, k, img) ==
    /\ k + 2 <= Len(s)
    /\ s[k].kind = "desc"
    /\ BoxWithin(DescBox(s[k]), img.size)
    /\ SubSeq(s, k, k + 2) = getdata(crop(img, DescBox(s[k])), DescOffset(s[k]))

\* The pixels at which two canvases of one size differ.
Differing(a, b) == {p \in Positions(a.size) : a.px[p] # b.px[p]}

Rects(size) ==
    {b \in (0 .. size[1]) \X (0 .. size[2]) \X (0 .. size[1]) \X (0 .. size[2]) :
        b[1] < b[3] /\ b[2] < b[4]}

Inside(p, box) ==
    box[1] <= p[1] /\ p[1] < box[3] /\ box[2] <= p[2] /\ p[2] < box[4]

Covers(box, S) == \A p \in S : Inside(p, box)

\* The smallest rectangle that holds every differing pixel: it covers them
\* and no rectangle that covers them lies strictly inside it.
IsMinimalBox(box, S) ==
    /\ Covers(box, S)
    /\ \A other \in Rects(CanvasSize) :
          Covers(other, S) =>
              /\ other[1] <= box[1] /\ other[2] <= box[2]
              /\ other[3] >= box[3] /\ other[4] >= box[4]

\* The stream an encode without failure writes, by recursion on the input.
DeltaStream(fs, k) ==
    IF DeltaBBox(fs[k], fs[k - 1]) = NoBBox THEN <<>>
    ELSE DeltaBlocks(fs[k], DeltaBBox(fs[k], fs[k - 1]))

RECURSIVE FrameStream(_, _)
FrameStream(fs, n) ==
    IF n = 0 THEN <<>>
    ELSE IF n = 1 THEN FirstFrameHeaders(fs[1]) \o getdata(fs[1], <<0, 0>>)
    ELSE FrameStream(fs, n - 1) \o DeltaStream(fs, n)

FullStream(fs) ==
    FrameStream(fs, Len(fs)) \o <<[kind |-> "trailer", bytes |-> <<TrailerByte>>]>>

\* ------------------------------------------------------------- the source
\* A source frame, as PIL shows it after seek(): tile is empty or holds one
\* entry <<decoder, extents>> with extents = <<x0, y0, x1, y1>>; pal is the
\* frame's own palette or NoPalette; idx gives each canvas position the
\* palette index (1, 2) of the frame's pixel there, 0 where the frame has no
\* pixel.  The frame's pixels fill its extents; a frame with an empty tile
\* fills the canvas.
PalA == <<Red, Green>>
PalB == <<Blue, Green>>

FullBox == <<0, 0, CanvasSize[1], CanvasSize[2]>>

Region(frame) == IF frame.tile = <<>> THEN FullBox ELSE frame.tile[1][2]

Tiles == {<<>>} \cup {<< <<"gif", ext>> >> : ext \in Rects(CanvasSize)}

SourceFrames(pals) ==
    UNION {
        {[tile |-> t, pal |-> pl,
          idx |-> [p \in Positions(CanvasSize) |->
                      IF Inside(p, Region([tile |-> t])) THEN d[p] ELSE 0]] :
            d \in [Positions(CanvasSize) -> {1, 2}], pl \in pals} :
        t \in Tiles}

\* The first frame carries the palette the others may lack.
FirstFrames == SourceFrames({PalA})
LaterFrames == SourceFrames({NoPalette, PalB})

\* orig.convert('RGBA'): the frame's pixels through its palette, opaque;
\* clear where the frame has no pixel.
convert(frame) ==
    [size |-> CanvasSize,
     px |-> [p \in Positions(CanvasSize) |->
                IF frame.idx[p] = 0 THEN Clear ELSE frame.pal[frame.idx[p]]]]

\* Image.new('RGBA', size): all pixels clear.
new(size) == [size |-> size, px |-> [p \in Positions(size) |-> Clear]]

\* dest.paste(src): src replaces dest (same size, at <<0, 0>>).
paste(dest, src) ==
    [size |-> dest.size, px |-> [p \in Positions(dest.size) |-> src.px[p]]]

\* dest.paste(src, (0, 0), mask): src where the mask's alpha is 255.
paste_mask(dest, src, mask) ==
    [size |-> dest.size,
     px |-> [p \in Positions(dest.size) |->
                IF mask.px[p][4] = 255 THEN src.px[p] ELSE dest.px[p]]]

\* ------------------------------------------------------------- read_frames
is_partial_frame(img) ==
    IF img.tile = <<>> THEN FALSE
    ELSE SubSeq(img.tile[1][2], 3, 4) # CanvasSize

\* if not orig.getpalette(): orig.putpalette(palette)
WithPalette(frame, pal) ==
    IF frame.pal = NoPalette THEN [frame EXCEPT !.pal = pal] ELSE frame

\* One pass of the loop body up to the yield: the canvas built for the frame
\* (its palette settled) on top of what prev_frame refers to.
current_frame(frame, prev) ==
    LET blank == new(CanvasSize)
        base == IF is_partial_frame(frame) THEN paste(blank, prev) ELSE blank
    IN paste_mask(base, convert(frame), convert(frame))

\* Mutant: no except clause, the EOFError leaves the generator.
OnEOFError_uncaught == "fault"

\* except EOFError: break
OnEOFError == "ended"

\* First next(): the defaults from the first frame, then the first yield.
Start ==
    /\ dpc = "start"
    /\ LET first == convert(orig)
           cur == current_frame(WithPalette(orig, orig.pal), first)
       IN /\ palette' = orig.pal
          /\ orig' = WithPalette(orig, orig.pal)
          /\ heap' = <<first, cur>>
          /\ rprev' = 1
          /\ rcur' = 2
          /\ lastYield' = cur
          /\ shadow' = cur
    /\ prevYield' = NoImage
    /\ builtFrom' = <<pos>>
    /\ dpc' = "yielded"
    /\ UNCHANGED <<nframes, pos, mutations, encVars>>

\* next() after a yield, a frame follows: prev_frame = current_frame, seek,
\* the loop body, the next yield.
ResumeNext ==
    /\ dpc = "yielded"
    /\ pos + 1 < nframes
    /\ \E f \in LaterFrames :
         LET frame == WithPalette(f, palette)
             fresh == 3 - rcur
             cur == current_frame(frame, heap[rcur])
         IN /\ orig' = frame
            /\ rprev' = rcur
            /\ rcur' = fresh
            /\ heap' = [heap EXCEPT ![fresh] = cur]
            /\ lastYield' = cur
            /\ shadow' = current_frame(frame, shadow)
    /\ pos' = pos + 1
    /\ prevYield' = lastYield
    /\ builtFrom' = Append(builtFrom, pos + 1)
    /\ UNCHANGED <<nframes, palette, dpc, mutations, encVars>>

\* next() after the last frame's yield: seek raises EOFError, the loop ends.
ResumeEnd ==
    /\ dpc = "yielded"
    /\ pos + 1 >= nframes
    /\ rprev' = rcur
    /\ dpc' = OnEOFError
    /\ UNCHANGED <<nframes, pos, orig, palette, heap, rcur, builtFrom,
                   lastYield, prevYield, shadow, mutations, encVars>>

\* The consumer writes a pixel of the canvas it was handed last.
Mutate ==
    /\ dpc = "yielded"
    /\ mutations < MaxMutations
    /\ \E p \in Positions(CanvasSize) :
          heap' = [heap EXCEPT ![rcur].px[p] = Black]
    /\ mutations' = mutations + 1
    /\ UNCHANGED <<nframes, pos, orig, palette, rprev, rcur, dpc, builtFrom,
                   lastYield, prevYield, shadow, encVars>>

EncIdle ==
    /\ frames = <<>>
    /\ i = 0
    /\ prev_frame = NoImage
    /\ sink = <<>>
    /\ epc = "idle"

InitDec ==
    /\ nframes \in 1 .. MaxFrames
    /\ pos = 0
    /\ orig \in FirstFrames
    /\ palette = NoPalette
    /\ heap = <<NoImage, NoImage>>
    /\ rprev = 0
    /\ rcur = 0
    /\ dpc = "start"
    /\ builtFrom = <<>>
    /\ lastYield = NoImage
    /\ prevYield = NoImage
    /\ shadow = NoImage
    /\ mutations = 0
    /\ EncIdle

NextDec == Start \/ ResumeNext \/ ResumeEnd

\* read_frames, its canvases only read by the consumer.
SpecDec == InitDec /\ [][NextDec]_vars

NextDecMut == Start \/ ResumeNext \/ ResumeEnd \/ Mutate

\* read_frames, with a consumer that may write to the canvas it holds.
SpecDecMut == InitDec /\ [][NextDecMut]_vars

\* ------------------------------------------------------------- claims, encoder

\* C10: with an empty input sequence the only write is the trailer byte 0x3B;
\* no signature, screen descriptor, colour table, looping extension or frame
\* block is written.
C10_EmptyInputOnlyTrailer ==
    frames = <<>> =>
        /\ epc = "loop" => sink = <<>>
        /\ epc = "done" => sink = <<[kind |-> "trailer", bytes |-> <<59>>]>>
        /\ epc # "raised"

C10_Witness == frames = <<>> /\ epc = "done" /\ Len(sink) = 1

\* C2: for a non-empty input that encodes without error the writes are, in
\* this order: signature+version, logical screen descriptor, global colour
\* table, looping extension, each once and before any frame block; the frame
\* blocks, in input order; one trailer byte, last.  A write is never revisited.
C2_OrderAtReturn ==
    (epc = "done" /\ Len(frames) >= 1) =>
        LET n == (Len(sink) - 5) \div 3
        IN /\ Len(sink) >= 8
           /\ Len(sink) = 5 + 3 * n
           /\ sink[1] = [kind |-> "sig", bytes |-> <<71, 73, 70, 56, 57, 97>>]
           /\ sink[2].kind = "lsd"
           /\ sink[3].kind = "gct"
           /\ sink[4].kind = "appext"
           /\ sink[Len(sink)] = [kind |-> "trailer", bytes |-> <<59>>]
           /\ \A k \in 5 .. Len(sink) - 1 : sink[k].kind \in {"desc", "pixels", "end"}
           /\ \E f \in [1 .. n -> 1 .. Len(frames)] :
                 /\ \A g \in 1 .. n : \A h \in 1 .. n : g < h => f[g] < f[h]
                 /\ \A g \in 1 .. n : GroupEncodes(sink, 5 + 3 * (g - 1), frames[f[g]])

\* C2, in full: the order above at return, and every step of the call only
\* appends to the sink, nothing following the trailer.
C2_WriteOrder ==
    /\ []C2_OrderAtReturn
    /\ [][IsPrefix(sink, sink') /\ (epc = "done" => sink' = sink)]_vars

C2_Witness ==
    /\ epc = "done"
    /\ Len(frames) = 3
    /\ NumGroups(sink) = 3

\* C3: for N >= 1 canvases of one size the number of frame-block groups is
\* 1 (the first canvas, encoded in full) plus the number of canvases that are
\* not pixel-identical to the canvas before them; so between 1 and N.
C3_GroupCount ==
    (epc = "done" /\ Len(frames) >= 1) =>
        /\ NumGroups(sink)
              = 1 + Cardinality({k \in 2 .. Len(frames) : frames[k] # frames[k - 1]})
        /\ NumGroups(sink) >= 1
        /\ NumGroups(sink) <= Len(frames)
        /\ SubSeq(sink, 5, 7) = getdata(frames[1], <<0, 0>>)
        /\ (Len(frames) = 2 /\ frames[1] = frames[2]) => NumGroups(sink) = 1

C3_Witness ==
    /\ epc = "done"
    /\ Len(frames) = 3
    /\ frames[1] = frames[2]
    /\ frames[2] # frames[3]
    /\ NumGroups(sink) = 2

\* C4: when canvas i differs from canvas i-1 exactly within the minimal
\* bounding box R of the differing pixels, the blocks written for canvas i
\* are the encoding of canvas i cropped to R, with declared offset R's
\* top-left corner and declared size R's width and height.
C4_DeltaBlockIsCropToR ==
    (epc = "loop" /\ i >= 2 /\ frames[i] # frames[i - 1]) =>
        \E R \in Rects(CanvasSize) :
            /\ IsMinimalBox(R, Differing(frames[i], frames[i - 1]))
            /\ Len(sink) >= 3
            /\ LET d == sink[Len(sink) - 2]
               IN /\ d.kind = "desc"
                  /\ DescOffset(d) = <<R[1], R[2]>>
                  /\ DescSize(d) = <<R[3] - R[1], R[4] - R[2]>>
                  /\ SubSeq(sink, Len(sink) - 2, Len(sink))
                        = getdata(crop(frames[i], R), <<R[1], R[2]>>)

C4_Witness ==
    /\ epc = "loop"
    /\ i = 2
    /\ Differing(frames[2], frames[1]) = {<<1, 0>>, <<1, 1>>}
    /\ DescOffset(sink[Len(sink) - 2]) = <<1, 0>>
    /\ DescSize(sink[Len(sink) - 2]) = <<1, 2>>

\* C6: when the codec fails the failure ends the call: nothing is written
\* afterwards, the trailer byte is not in the sink, and the sink holds a
\* prefix of the stream a run without failure writes.
C6_FailureInv ==
    epc = "raised" =>
        /\ \A k \in 1 .. Len(sink) : sink[k].kind # "trailer"
        /\ IsPrefix(sink, FullStream(frames))
        /\ sink # FullStream(frames)

\* C6, in full: the state after a codec failure is as above and no step
\* follows it (no retry, no further write).
C6_CodecFailure ==
    /\ []C6_FailureInv
    /\ [][epc = "raised" => (sink' = sink /\ epc' = "raised")]_vars

C6_Witness ==
    /\ epc = "raised"
    /\ i = 2
    /\ NumGroups(sink) = 2

\* C9: after canvas i has been handled prev_frame is a copy of canvas i
\* itself, uncropped, whether or not blocks were written for it.  For inputs
\* C0, C0, C2 the frame blocks are the full encoding of C0 and the crop of
\* C2 to the changed region at its offset: two groups.
C9_BaselineIsPreviousInput ==
    /\ i >= 1 => prev_frame = frames[i]
    /\ i = 0 => prev_frame = NoImage
    /\ (epc = "done" /\ Len(frames) = 3 /\ frames[1] = frames[2]
            /\ frames[3] # frames[2]) =>
          /\ NumGroups(sink) = 2
          /\ SubSeq(sink, 5, 7) = getdata(frames[1], <<0, 0>>)
          /\ \E R \in Rects(CanvasSize) :
                /\ IsMinimalBox(R, Differing(frames[3], frames[1]))
                /\ SubSeq(sink, 8, 10) = getdata(crop(frames[3], R), <<R[1], R[2]>>)

C9_Witness ==
    /\ epc = "done"
    /\ Len(frames) = 3
    /\ frames[1] = frames[2]
    /\ Differing(frames[3], frames[2]) = {<<1, 1>>}
    /\ NumGroups(sink) = 2

\* C5: a canvas whose width or height differs from the first canvas's aborts
\* the encode before any of its blocks is written: it is never handled.
C5_MismatchAborts ==
    \A k \in 2 .. Len(frames) :
        frames[k].size # frames[1].size => i < k

\* ------------------------------------------------------------- claims, decoder

\* C1: a source of N >= 1 frames yields exactly N canvases, the k-th built
\* from the k-th frame, and then the sequence ends normally: the EOFError of
\* the seek past the last frame never reaches the consumer.
C1_OneCanvasPerFrame ==
    /\ dpc # "fault"
    /\ Len(builtFrom) <= nframes
    /\ \A k \in 1 .. Len(builtFrom) : builtFrom[k] = k - 1
    /\ dpc = "yielded" =>
          /\ Len(builtFrom) = pos + 1
          /\ \A p \in Positions(CanvasSize) :
                Inside(p, Region(orig)) => lastYield.px[p] = convert(orig).px[p]
    /\ dpc = "ended" => Len(builtFrom) = nframes

C1_Witness ==
    /\ dpc = "ended"
    /\ nframes = 3
    /\ Len(builtFrom) = 3

\* C7: for a frame k >= 1 whose declared sub-rectangle is strictly smaller
\* than the canvas, wherever it lies, every pixel of canvas k outside the
\* sub-rectangle equals that pixel of canvas k-1 and every pixel inside it
\* is the frame's.
C7_PartialFramePatchesPrevious ==
    (dpc = "yielded" /\ pos >= 1 /\ orig.tile # <<>> /\ Region(orig) # FullBox) =>
        \A p \in Positions(CanvasSize) :
            IF Inside(p, Region(orig))
            THEN lastYield.px[p] = convert(orig).px[p]
            ELSE lastYield.px[p] = prevYield.px[p]

\* C8: a canvas the consumer writes to after it was yielded leaves every
\* later canvas as it is when the consumer writes to nothing.
C8_YieldedCanvasesIndependent ==
    dpc = "yielded" => lastYield = shadow

====
